---- MODULE Spec2Model ----
(***************************************************************************)
(* SDP local monitoring and control devices (ska_sdp_lmc): one device      *)
(* instance (SDPMaster or SDPSubarray), its command thread, its event-loop *)
(* thread (SDPDevice.set_attributes) and the configuration store both      *)
(* work on.                                                                *)
(*                                                                         *)
(* Encoding of Python values: None is the string "None" (for the scan id,  *)
(* an integer, it is NoScanId); enum members are their names.              *)
(***************************************************************************)
EXTENDS Integers, FiniteSets, Sequences, TLC

\* ------------------------------------------------------------------ bounds
MaxCmds == 3   \* budget of one behaviour: accepted calls, external writes
MaxExt  == 1   \* low-level writes to the device record by another client
MaxOps  == 4   \* transactions of a client of the configuration interface
MaxQueue == 2  \* updates waiting in the update queue of a device

\* ------------------------------------------------------------ value sets
None == "None"
NoScanId == -1

\* tango.DevState names the devices use (a subset of DevState.names; the
\* other names behave as FAULT does: they are in no allow-list).
DevStateNames == {"ON", "OFF", "STANDBY", "DISABLE", "INIT", "FAULT"}

ObsStateNames == {"EMPTY", "RESOURCING", "IDLE", "CONFIGURING", "READY",
                  "SCANNING", "ABORTING", "ABORTED", "RESETTING", "FAULT",
                  "RESTARTING"}

SubarrayId == "01"
SbiIds == {"eb1", "eb2"}
PbIds == {"pb1", "pb2"}
ScanTypeIds == {"A", "B"}

MasterCommands == {"On", "Disable", "Standby", "Off"}

SubarrayCommands == {"On", "Off", "AssignResources", "ReleaseResources",
                     "Configure", "Scan", "EndScan", "End", "Abort",
                     "ObsReset", "Restart"}

VARIABLES
    kind,       \* "master" or "subarray": the device class of the instance
    store,      \* the configuration database
    devState,   \* published attribute State (Device.get_state())
    obsState,   \* published attribute obsState (_obs_state)
    recvAddr,   \* published attribute receiveAddresses (_receive_addresses)
    scanType,   \* published attribute scanType (_scan_type)
    scanID,     \* published attribute scanID (_scan_id)
    deleting,   \* SDPDevice._deleting
    watcher,    \* SDPDevice._watcher
    eventLoop,  \* SDPDevice._event_loop
    lockOwner,  \* owner of _event_loop.condition
    waiters,    \* threads blocked in condition.wait()
    triggered,  \* the watcher has been triggered and not yet woken
    cpc,        \* position of the command thread
    cmd,        \* the call being served: [name, arg, txn]
    result,     \* outcome of the last call
    nCmds,      \* calls dispatched so far
    nExt,       \* external record writes so far
    wpc,        \* position of the event-loop thread
    snap,       \* values read by the watch transaction of the current pass
    snapRev,    \* store revision the event loop last read
    cmdRev,     \* store revision committed by the last command body
    appliedRev, \* revision read by the last pass that reached notify
    passFailed, \* a pass of the event loop raised
    pushed,     \* attributes the current (or last) pass pushed a change event for
    epc,        \* position of a caller of wait_for_event
    updateQueue,\* SDPDevice._update_queue
    delivered   \* the queued updates flush_update_queue has run, in order

vars == <<kind, store, devState, obsState, recvAddr, scanType, scanID,
          deleting, watcher, eventLoop, lockOwner, waiters, triggered,
          cpc, cmd, result, nCmds, nExt, wpc, snap, snapRev, cmdRev,
          appliedRev, passFailed, pushed, epc, updateQueue, delivered>>

published == <<devState, obsState, recvAddr, scanType, scanID>>
device == <<deleting, watcher, eventLoop>>
cmdThread == <<cpc, cmd, result, nCmds>>
history == <<cmdRev, appliedRev, passFailed>>
queue == <<updateQueue, delivered>>
ext == <<pushed, epc, queue>>

\* ---------------------------------------------------------------- store
NullSbi == [exists |-> FALSE, subarray_id |-> None, scan_types |-> {},
            pb_receive_addresses |-> None, current_scan_type |-> None,
            scan_id |-> NoScanId, status |-> None]

\* MasterState.create_if_not_present: the record init_device creates
InitMaster == [transaction_id |-> 0, state |-> "STANDBY"]

\* SubarrayState.create_if_not_present: the record init_device creates
InitSubarray == [transaction_id |-> 0, last_command |-> None,
                 state |-> "OFF", obs_state_target |-> "EMPTY",
                 sbi_id |-> None]

InitStore == [present |-> {"master", "subarray"},
              master |-> InitMaster,
              subarray |-> InitSubarray,
              sbi |-> [i \in SbiIds |-> NullSbi],
              pb |-> [p \in PbIds |-> None],
              pbState |-> [p \in PbIds |-> "absent"],
              rev |-> 0]

\* one committed transaction: the revision of the store moves on
Commit(st) == [st EXCEPT !.rev = st.rev + 1]

\* the store before any device has created its record
EmptyStore == [InitStore EXCEPT
                 !.present = {},
                 !.master = [transaction_id |-> 0, state |-> None],
                 !.subarray = [transaction_id |-> 0, last_command |-> None,
                               state |-> None, obs_state_target |-> None,
                               sbi_id |-> None]]

\* RunTxn committing what the body wrote before it raised
RunTxn_Partial(st, r) == IF r.st = st THEN st ELSE Commit(r.st)

\* "for txn in self._config.txn(): <body>": what the store holds after the
\* body with outcome r (its error and the values it wrote) has run on st.
\* A body that raises commits nothing; one that wrote nothing leaves the
\* revision where it was.
RunTxn(st, r) == IF r.err # "" \/ r.st = st THEN st ELSE Commit(r.st)

\* CreateIfNotPresent writing the initial values over an existing record
CreateIfNotPresent_Overwrite(k, st) ==
    [st EXCEPT !.present = @ \cup {k},
               !.master = IF k = "master" THEN InitMaster ELSE @,
               !.subarray = IF k = "subarray" THEN InitSubarray ELSE @]

\* MasterState.create_if_not_present(STANDBY) /
\* SubarrayState.create_if_not_present(OFF, EMPTY), as init_device calls them
CreateIfNotPresent(k, st) ==
    IF k \in st.present THEN st
    ELSE [st EXCEPT !.present = @ \cup {k},
                    !.master = IF k = "master" THEN InitMaster ELSE @,
                    !.subarray = IF k = "subarray" THEN InitSubarray ELSE @]

\* ---------------------------------------------------- typed record views
\* StateView handing out the stored string as it is
StateView_Raw(value_str) == value_str

\* MasterState.state / SubarrayState.state (getter)
StateView(value_str) == IF value_str \in DevStateNames THEN value_str ELSE None

\* SubarrayState.obs_state_target (getter)
ObsStateView(value_str) == IF value_str \in ObsStateNames THEN value_str ELSE None

\* SubarrayState._get
Get(st, name) == st.subarray[name]

\* SubarrayState._set
Set(st, name, value) == [st EXCEPT !.subarray[name] = value]

\* SubarrayState._get_sbi: the linked SBI, NullSbi standing for "no link"
LinkedSbi(st) == IF Get(st, "sbi_id") # None THEN st.sbi[Get(st, "sbi_id")]
                 ELSE NullSbi

\* SubarrayState._set_sbi: does nothing when no SBI is linked
SetSbi(st, name, value) ==
    IF Get(st, "sbi_id") # None
    THEN [st EXCEPT !.sbi[Get(st, "sbi_id")][name] = value]
    ELSE st

\* SubarrayState.scan_type (getter)
ScanTypeOf(st) == LinkedSbi(st).current_scan_type

\* SubarrayState.scan_id (getter)
ScanIdOf(st) == LinkedSbi(st).scan_id

\* SubarrayState.receive_addresses
ReceiveAddresses(st) ==
    LET pb_id == LinkedSbi(st).pb_receive_addresses
    IN IF pb_id # None /\ st.pbState[pb_id] = "addr" THEN "addr" ELSE None

\* ------------------------------------------------------------ scan types
\* A scan type as a dictionary: k is the key that holds its identifier
\* ("id" in the old schema and in what the configuration tests write,
\* "scan_type_id" in the schema the commands validate against), v the
\* identifier.
ScanType(k, v) == [key |-> k, val |-> v]

\* the identifiers of a list of scan types, under whichever key
ScanTypeIdsOf(scan_types) == {t.val : t \in scan_types}

\* "[st.get("id") for st in scan_types]": what scan_type (setter) and
\* add_scan_types look the identifiers up with
StIds(scan_types) == {IF t.key = "id" THEN t.val ELSE None : t \in scan_types}

\* ------------------------------------------------------ command payloads
\* The JSON argument of a call, after json.loads. keyed: the payload carries
\* every id key the conversion from the old schema pops ("id" for "eb_id",
\* "scan_id", "scan_type_id"); valid: the schema validation accepts it.
NoArg == [keyed |-> TRUE, valid |-> TRUE, id |-> None, scan_types |-> {},
          pbs |-> {}, has_new |-> FALSE, new_scan_types |-> {},
          scan_type |-> None, scan_id |-> NoScanId]

\* payloads the validation does not let through: one that lacks an id key
\* and one that has its keys but does not fit the schema
BadArgs == {[NoArg EXCEPT !.keyed = FALSE, !.valid = FALSE],
            [NoArg EXCEPT !.valid = FALSE]}

AssignArgs == {[NoArg EXCEPT !.id = i,
                             !.scan_types = {ScanType("scan_type_id", "A")},
                             !.pbs = {p}] :
               i \in SbiIds, p \in PbIds} \cup BadArgs

ConfigureArgs == {[NoArg EXCEPT !.has_new = h,
                                !.new_scan_types =
                                   IF h THEN {ScanType("scan_type_id", "B")}
                                   ELSE {},
                                !.scan_type = t] :
                  h \in BOOLEAN, t \in ScanTypeIds} \cup BadArgs

ScanArgs == {[NoArg EXCEPT !.scan_id = 1]} \cup BadArgs

Args(c) == CASE c = "AssignResources" -> AssignArgs
             [] c = "Configure" -> ConfigureArgs
             [] c = "Scan" -> ScanArgs
             [] OTHER -> {NoArg}

Commands(k) == IF k = "master" THEN MasterCommands ELSE SubarrayCommands

\* ------------------------------------------------- store operations (txn)
\* outcome of a transaction body: err = "" when it ran to the end
Ok(st) == [err |-> "", st |-> st]
Failed(e, st) == [err |-> e, st |-> st]

\* subarray.command = ...; subarray.transaction_id = ...
Stamp(st, name, txn) == Set(Set(st, "last_command", name), "transaction_id", txn)

\* SetScanType that writes whatever it is given
SetScanType_Unchecked(st, value) == Ok(SetSbi(st, "current_scan_type", value))

\* SubarrayState.scan_type (setter)
SetScanType(st, value) ==
    IF Get(st, "sbi_id") # None /\ value # None
       /\ value \notin StIds(LinkedSbi(st).scan_types)
    THEN Failed("CommandFailed", st)
    ELSE Ok(SetSbi(st, "current_scan_type", value))

\* SubarrayState.scan_id (setter)
SetScanId(st, value) == SetSbi(st, "scan_id", value)

\* EndSbi that drops the link before it updates the SBI
EndSbi_UnlinkFirst(st, status) ==
    LET s0 == Set(st, "sbi_id", None)
        s1 == SetSbi(s0, "subarray_id", None)
        s2 == SetSbi(s1, "status", status)
        s3 == SetScanType(s2, None).st
    IN SetScanId(s3, NoScanId)

\* SubarrayState._end_sbi
EndSbi(st, status) ==
    LET s1 == SetSbi(st, "subarray_id", None)
        s2 == SetSbi(s1, "status", status)
        s3 == SetScanType(s2, None).st
        s4 == SetScanId(s3, NoScanId)
    IN Set(s4, "sbi_id", None)

\* SubarrayState.finish_sbi
FinishSbi(st) == EndSbi(st, "FINISHED")

\* SubarrayState.cancel_sbi
CancelSbi(st) == EndSbi(st, "CANCELLED")

\* subarray_validation._parse_sbi_and_pbs: the SBI of a valid payload
ParsedSbi(a) == [exists |-> TRUE, subarray_id |-> None,
                 scan_types |-> a.scan_types, pb_receive_addresses |-> None,
                 current_scan_type |-> None, scan_id |-> NoScanId,
                 status |-> "ACTIVE"]

\* CreateSbiAndPbs that does not look for the ids in the store
CreateSbiAndPbs_Overwrite(st, a) ==
    LET s1 == Set(st, "sbi_id", a.id)
        s2 == [s1 EXCEPT !.sbi[a.id] = ParsedSbi(a)]
        s3 == SetSbi(s2, "subarray_id", SubarrayId)
    IN Ok([s3 EXCEPT !.pb = [p \in PbIds |->
                               IF p \in a.pbs THEN a.id ELSE s3.pb[p]]])

\* CreateSbiAndPbs that does not write the subarray id into the SBI
CreateSbiAndPbs_NoBackLink(st, a) ==
    LET s1 == Set(st, "sbi_id", a.id)
        s2 == [s1 EXCEPT !.sbi[a.id] = ParsedSbi(a)]
        s4 == [s2 EXCEPT !.pb = [p \in PbIds |->
                                   IF p \in a.pbs THEN a.id ELSE s2.pb[p]]]
    IN IF s1.sbi[a.id].exists THEN Failed("CommandFailed", s1)
       ELSE IF \E p \in a.pbs : s2.pb[p] # None THEN Failed("CommandFailed", s2)
       ELSE Ok(s4)

\* SubarrayState.create_sbi_and_pbs
CreateSbiAndPbs(st, a) ==
    LET s1 == Set(st, "sbi_id", a.id)
        s2 == [s1 EXCEPT !.sbi[a.id] = ParsedSbi(a)]
        s3 == SetSbi(s2, "subarray_id", SubarrayId)
        s4 == [s3 EXCEPT !.pb = [p \in PbIds |->
                                   IF p \in a.pbs THEN a.id ELSE s3.pb[p]]]
    IN IF s1.sbi[a.id].exists THEN Failed("CommandFailed", s1)
       ELSE IF \E p \in a.pbs : s3.pb[p] # None THEN Failed("CommandFailed", s3)
       ELSE Ok(s4)

\* SubarrayState.add_scan_types
AddScanTypes(st, a) ==
    IF ~a.has_new THEN Ok(st)
    ELSE IF Get(st, "sbi_id") = None THEN Failed("TypeError", st)
    ELSE IF StIds(a.new_scan_types) \cap StIds(LinkedSbi(st).scan_types) # {}
         THEN Failed("CommandFailed", st)
    ELSE Ok(SetSbi(st, "scan_types",
                   LinkedSbi(st).scan_types \cup a.new_scan_types))

\* subarray_validation.validate_assign_resources / validate_configure /
\* validate_scan: "" when the payload gets through. The conversion pops the
\* old id key before the schema is consulted, so a payload without it ends
\* in KeyError; one the schema rejects in CommandFailed.
Validate(a) == IF ~a.keyed THEN "KeyError"
               ELSE IF ~a.valid THEN "CommandFailed"
               ELSE ""

\* ----------------------------------------------------- command bodies
\* MasterTarget with Standby writing the state of Off
MasterTarget_Swapped(c) == CASE c = "On" -> "ON"
                             [] c = "Disable" -> "DISABLE"
                             [] c = "Standby" -> "OFF"
                             [] c = "Off" -> "OFF"

\* SDPMaster.On / Disable / Standby / Off: the state each writes
MasterTarget(c) == CASE c = "On" -> "ON"
                     [] c = "Disable" -> "DISABLE"
                     [] c = "Standby" -> "STANDBY"
                     [] c = "Off" -> "OFF"

\* body of a Master command
MasterBody(c, txn, st) ==
    Ok([st EXCEPT !.master.transaction_id = txn,
                  !.master.state = MasterTarget(c)])

\* BodyOn that sets the target of AssignResources
BodyOn_Idle(txn, st) ==
    Ok(Set(Set(Stamp(st, "On", txn), "state", "ON"),
           "obs_state_target", "IDLE"))

\* SDPSubarray.On
BodyOn(txn, st) ==
    Ok(Set(Set(Stamp(st, "On", txn), "state", "ON"),
           "obs_state_target", "EMPTY"))

\* BodyOff taking the normal branch whatever the published obsState is
BodyOff_Plain(txn, st, obs) ==
    Ok(Set(Stamp(st, "Off", txn), "state", "OFF"))

\* SDPSubarray.Off: obs is the published obsState the body reads
BodyOff(txn, st, obs) ==
    LET s1 == Set(Stamp(st, "Off", txn), "state", "OFF")
    IN IF obs = "EMPTY" THEN Ok(s1)
       ELSE Ok(CancelSbi(Set(s1, "obs_state_target", "EMPTY")))

\* SDPSubarray.AssignResources
BodyAssignResources(a, txn, st) ==
    IF Validate(a) # "" THEN Failed(Validate(a), st)
    ELSE CreateSbiAndPbs(Set(Stamp(st, "AssignResources", txn),
                             "obs_state_target", "IDLE"), a)

\* SDPSubarray.ReleaseResources
BodyReleaseResources(txn, st) ==
    Ok(FinishSbi(Set(Stamp(st, "ReleaseResources", txn),
                     "obs_state_target", "EMPTY")))

\* SDPSubarray.Configure
BodyConfigure(a, txn, st) ==
    IF Validate(a) # "" THEN Failed(Validate(a), st)
    ELSE LET s1 == Set(Stamp(st, "Configure", txn), "obs_state_target", "READY")
             r2 == AddScanTypes(s1, a)
         IN IF r2.err # "" THEN r2 ELSE SetScanType(r2.st, a.scan_type)

\* SDPSubarray.Scan
BodyScan(a, txn, st) ==
    IF Validate(a) # "" THEN Failed(Validate(a), st)
    ELSE Ok(SetScanId(Set(Stamp(st, "Scan", txn), "obs_state_target",
                          "SCANNING"), a.scan_id))

\* BodyEndScan leaving the scan id as it is
BodyEndScan_KeepId(txn, st) ==
    Ok(Set(Stamp(st, "EndScan", txn), "obs_state_target", "READY"))

\* SDPSubarray.EndScan
BodyEndScan(txn, st) ==
    Ok(SetScanId(Set(Stamp(st, "EndScan", txn), "obs_state_target", "READY"),
                 NoScanId))

\* SDPSubarray.End
BodyEnd(txn, st) ==
    SetScanType(Set(Stamp(st, "End", txn), "obs_state_target", "IDLE"), None)

\* SDPSubarray.Abort
BodyAbort(txn, st) ==
    Ok(Set(Stamp(st, "Abort", txn), "obs_state_target", "ABORTED"))

\* BodyObsReset leaving last_command as it was
BodyObsReset_NoStamp(txn, st) ==
    LET r1 == SetScanType(Set(st, "obs_state_target", "IDLE"), None)
    IN Ok(SetScanId(r1.st, NoScanId))

\* SDPSubarray.ObsReset
BodyObsReset(txn, st) ==
    LET r1 == SetScanType(Set(Stamp(st, "ObsReset", txn),
                              "obs_state_target", "IDLE"), None)
    IN Ok(SetScanId(r1.st, NoScanId))

\* BodyRestart setting the target without cancelling the SBI
BodyRestart_KeepSbi(txn, st) ==
    Ok(Set(Stamp(st, "Restart", txn), "obs_state_target", "EMPTY"))

\* SDPSubarray.Restart
BodyRestart(txn, st) ==
    Ok(CancelSbi(Set(Stamp(st, "Restart", txn), "obs_state_target", "EMPTY")))

\* body of a Subarray command
SubarrayBody(c, a, txn, st, obs) ==
    CASE c = "On" -> BodyOn(txn, st)
      [] c = "Off" -> BodyOff(txn, st, obs)
      [] c = "AssignResources" -> BodyAssignResources(a, txn, st)
      [] c = "ReleaseResources" -> BodyReleaseResources(txn, st)
      [] c = "Configure" -> BodyConfigure(a, txn, st)
      [] c = "Scan" -> BodyScan(a, txn, st)
      [] c = "EndScan" -> BodyEndScan(txn, st)
      [] c = "End" -> BodyEnd(txn, st)
      [] c = "Abort" -> BodyAbort(txn, st)
      [] c = "ObsReset" -> BodyObsReset(txn, st)
      [] c = "Restart" -> BodyRestart(txn, st)

\* do_command of command_transaction.wrapper: the decorated method
Body(k, c, a, txn, st, obs) ==
    IF k = "master" THEN MasterBody(c, txn, st)
    ELSE SubarrayBody(c, a, txn, st, obs)

\* ------------------------------------------------------------- guards
\* CommandAllowed that never raises
CommandAllowed_Always(value, allowed) == TRUE

\* SDPDevice._command_allowed: raises unless value is in allowed
CommandAllowed(value, allowed) == value \in allowed

\* SDPMaster.is_X_allowed: allowed device states
MasterAllowedStates(c) ==
    CASE c = "On" -> {"OFF", "STANDBY", "DISABLE"}
      [] c = "Disable" -> {"OFF", "STANDBY", "ON"}
      [] c = "Standby" -> {"OFF", "DISABLE", "ON"}
      [] c = "Off" -> {"STANDBY", "DISABLE", "ON"}

\* SDPSubarray.is_X_allowed: allowed device states
SubarrayAllowedStates(c) == IF c = "On" THEN {"OFF"} ELSE {"ON"}

\* SDPSubarray.is_X_allowed: does the guard check obsState at all
ChecksObsState(c) == c # "Off"

\* SubarrayAllowedObsStates with Abort accepted in RESOURCING as well
SubarrayAllowedObsStates_AbortResourcing(c) ==
    CASE c = "On" -> {"EMPTY"}
      [] c = "AssignResources" -> {"EMPTY"}
      [] c = "ReleaseResources" -> {"IDLE"}
      [] c = "Configure" -> {"IDLE", "READY"}
      [] c = "Scan" -> {"READY"}
      [] c = "EndScan" -> {"SCANNING"}
      [] c = "End" -> {"READY"}
      [] c = "Abort" -> {"RESOURCING", "IDLE", "CONFIGURING", "READY",
                         "SCANNING", "RESETTING"}
      [] c = "ObsReset" -> {"ABORTED", "FAULT"}
      [] c = "Restart" -> {"ABORTED", "FAULT"}
      [] OTHER -> {}

\* SDPSubarray.is_X_allowed: allowed obsState values
SubarrayAllowedObsStates(c) ==
    CASE c = "On" -> {"EMPTY"}
      [] c = "AssignResources" -> {"EMPTY"}
      [] c = "ReleaseResources" -> {"IDLE"}
      [] c = "Configure" -> {"IDLE", "READY"}
      [] c = "Scan" -> {"READY"}
      [] c = "EndScan" -> {"SCANNING"}
      [] c = "End" -> {"READY"}
      [] c = "Abort" -> {"IDLE", "CONFIGURING", "READY", "SCANNING",
                         "RESETTING"}
      [] c = "ObsReset" -> {"ABORTED", "FAULT"}
      [] c = "Restart" -> {"ABORTED", "FAULT"}
      [] OTHER -> {}

\* is_<command>_allowed of the device class, on the published attributes
IsAllowed(k, c, state, obs) ==
    IF k = "master" THEN CommandAllowed(state, MasterAllowedStates(c))
    ELSE /\ CommandAllowed(state, SubarrayAllowedStates(c))
         /\ ChecksObsState(c) => CommandAllowed(obs, SubarrayAllowedObsStates(c))

\* ------------------------------------------------------ initial state
NoSnap == [state |-> None, receive_addresses |-> None, scan_type |-> None,
           scan_id |-> NoScanId, obs_state_target |-> None,
           command |-> None]

NoCall == [name |-> None, arg |-> NoArg, txn |-> 0]

\* The state after init_device has run in the main thread: the record
\* exists, the attributes hold their initial private values and the event
\* loop thread has been started (_start_event_loop).
Init ==
    /\ kind \in {"master", "subarray"}
    /\ store = InitStore
    /\ devState = "INIT"
    /\ obsState = None
    /\ recvAddr = None
    /\ scanType = "null"
    /\ scanID = 0
    /\ deleting = FALSE
    /\ watcher = None
    /\ eventLoop = "thread"
    /\ lockOwner = None
    /\ waiters = {}
    /\ triggered = FALSE
    /\ cpc = "idle"
    /\ cmd = NoCall
    /\ result = None
    /\ nCmds = 0
    /\ nExt = 0
    /\ wpc = "watch"
    /\ snap = NoSnap
    /\ snapRev = -1
    /\ cmdRev = 0
    /\ appliedRev = -1
    /\ passFailed = FALSE
    /\ pushed = {}
    /\ epc = "idle"
    /\ updateQueue = <<>>
    /\ delivered = <<>>

\* What a behaviour has used of its budget: an accepted call counts for
\* one, a write by another client for two.
Spent == nCmds + 2 * nExt

\* --------------------------------------------------------------- the lock
\* HoldLock always handing out the null context
HoldLock_Null == "nullcontext"

\* SDPDevice._hold_lock: the condition of the event loop, if there is one;
\* the condition of a _FakeThread is itself a null context
HoldLock == IF eventLoop = "thread" THEN "condition" ELSE "nullcontext"

\* entering "with self._hold_lock()": blocks while another thread owns it
CanEnter == HoldLock = "condition" => lockOwner = None

\* the owner once thread t is inside "with self._hold_lock()"
Entered(t) == IF HoldLock = "condition" THEN t ELSE lockOwner

\* --------------------------------------------------------- command thread
\* The framework calls is_<command>_allowed, then the command itself.
Call(c, a) ==
    /\ cpc = "idle"
    /\ eventLoop = "fake" => wpc = "idle"
    /\ Spent < MaxCmds
    /\ c \in Commands(kind)
    /\ a \in Args(c)
    /\ cmd' = [name |-> c, arg |-> a, txn |-> nCmds + 1]
    /\ IF IsAllowed(kind, c, devState, obsState)
       THEN cpc' = "call" /\ result' = "pending" /\ nCmds' = nCmds + 1
       ELSE cpc' = "idle" /\ result' = "CommandNotAllowed" /\ UNCHANGED nCmds
    /\ UNCHANGED <<kind, ext, store, published, device, lockOwner, waiters,
                   triggered, nExt, wpc, snap, snapRev, history>>

\* CmdDo running the body without taking the condition
CmdDo_NoLock ==
    /\ cpc = "call"
    /\ IF eventLoop = None
       THEN cpc' = "idle" /\ result' = "AttributeError"
       ELSE cpc' = "exec" /\ UNCHANGED result
    /\ UNCHANGED <<kind, ext, store, published, device, lockOwner, waiters,
                   triggered, cmd, nCmds, nExt, wpc, snap, snapRev, history>>

\* command_transaction.wrapper: self._event_loop.do(do_command, name);
\* _RealThread.do: "with self.condition:"
CmdDo ==
    /\ cpc = "call"
    /\ IF eventLoop = None
       THEN /\ cpc' = "idle"
            /\ result' = "AttributeError"
            /\ UNCHANGED lockOwner
       ELSE /\ CanEnter
            /\ lockOwner' = Entered("cmd")
            /\ cpc' = "exec"
            /\ UNCHANGED result
    /\ UNCHANGED <<kind, ext, store, published, device, waiters, triggered, cmd,
                   nCmds, nExt, wpc, snap, snapRev, history>>

\* CmdExec going on to condition.wait() after a body that raised
CmdExec_WaitOnError ==
    /\ cpc = "exec"
    /\ LET r == Body(kind, cmd.name, cmd.arg, cmd.txn, store, obsState)
       IN IF r.err = ""
          THEN /\ store' = Commit(r.st)
               /\ cmdRev' = store.rev + 1
               /\ UNCHANGED result
          ELSE /\ result' = r.err
               /\ UNCHANGED <<store, cmdRev>>
    /\ cpc' = "written"
    /\ UNCHANGED <<kind, ext, published, device, lockOwner, waiters, triggered,
                   cmd, nCmds, nExt, wpc, snap, snapRev, appliedRev, passFailed>>

\* _RealThread.do: ret = f(*args, **kwargs), the body and its transaction.
\* A body that raises leaves the with block: nothing is committed.
CmdExec ==
    /\ cpc = "exec"
    /\ LET r == Body(kind, cmd.name, cmd.arg, cmd.txn, store, obsState)
       IN IF r.err = ""
          THEN /\ store' = Commit(r.st)
               /\ cmdRev' = store.rev + 1
               /\ cpc' = "written"
               /\ UNCHANGED <<lockOwner, result>>
          ELSE /\ lockOwner' = None
               /\ result' = r.err
               /\ cpc' = "idle"
               /\ UNCHANGED <<store, cmdRev>>
    /\ UNCHANGED <<kind, ext, published, device, waiters, triggered, cmd, nCmds,
                   nExt, wpc, snap, snapRev, appliedRev, passFailed>>

\* CmdWait returning at once, as _FakeThread.do does
CmdWait_NoWait ==
    /\ cpc = "written"
    /\ lockOwner' = None
    /\ cpc' = "flush"
    /\ UNCHANGED <<kind, ext, store, published, device, waiters, triggered, cmd,
                   result, nCmds, nExt, wpc, snap, snapRev, history>>

\* _RealThread.do: self.condition.wait() releases the lock and blocks;
\* _FakeThread.do returns what f returns, without waiting
CmdWait ==
    /\ cpc = "written"
    /\ IF eventLoop = "fake"
       THEN cpc' = "flush" /\ UNCHANGED <<lockOwner, waiters>>
       ELSE /\ lockOwner' = None
            /\ waiters' = waiters \cup {"cmd"}
            /\ cpc' = "waiting"
    /\ UNCHANGED <<kind, ext, store, published, device, triggered, cmd, result,
                   nCmds, nExt, wpc, snap, snapRev, history>>

\* _RealThread.do: wait() returns once notified and the lock is free again;
\* the with block ends and releases it.
CmdWake ==
    /\ cpc = "woken"
    /\ lockOwner = None
    /\ cpc' = "flush"
    /\ UNCHANGED <<kind, ext, store, published, device, lockOwner, waiters,
                   triggered, cmd, result, nCmds, nExt, wpc, snap, snapRev,
                   history>>

\* --------------------------------------------------- the update queue
\* the change notifications that can be scheduled
Updates == {"State", "obsState"}

\* ScheduleUpdate putting the new update at the head of the queue
ScheduleUpdate_Front(q, u) == <<u>> \o q

\* SDPDevice._schedule_update: self._update_queue.append(f)
ScheduleUpdate(q, u) == Append(q, u)

\* SDPDevice.flush_update_queue: "while self._update_queue:
\* f = self._update_queue.popleft(); f()", d the updates run so far
RECURSIVE FlushUpdateQueue(_, _)
FlushUpdateQueue(q, d) ==
    IF q = <<>> THEN [updateQueue |-> q, delivered |-> d]
    ELSE FlushUpdateQueue(Tail(q), Append(d, Head(q)))

\* The flush_event_queue that command_transaction.wrapper calls: it runs
\* what is waiting in the update queue, as flush_update_queue does.
FlushEventQueue(q) == FlushUpdateQueue(q, <<>>)

\* command_transaction.wrapper: flush the queue (inside
\* "with self._hold_lock()"), return to the caller
CmdReturn ==
    /\ cpc = "flush"
    /\ CanEnter
    /\ updateQueue' = FlushEventQueue(updateQueue).updateQueue
    /\ delivered' = FlushEventQueue(updateQueue).delivered
    /\ cpc' = "idle"
    /\ result' = "OK"
    /\ UNCHANGED <<kind, pushed, epc, store, published, device, lockOwner,
                   waiters, triggered, cmd, nCmds, nExt, wpc, snap, snapRev,
                   history>>

\* A change notification is scheduled while the command executes inside
\* "with self.condition", its transaction committed: it joins the update
\* queue.
CmdSchedule(u) ==
    /\ cpc = "written"
    /\ Len(updateQueue) < MaxQueue
    /\ updateQueue' = ScheduleUpdate(updateQueue, u)
    /\ UNCHANGED <<kind, pushed, epc, delivered, store, published, device,
                   lockOwner, waiters, triggered, cmdThread, nExt, wpc, snap,
                   snapRev, history>>

\* StopEventLoop that does not trigger the watcher
StopEventLoop_NoTrigger ==
    /\ cpc = "idle"
    /\ Spent < MaxCmds
    /\ CanEnter
    /\ deleting' = TRUE
    /\ watcher' = None
    /\ cmd' = [name |-> "stop_event_loop", arg |-> NoArg, txn |-> 0]
    /\ nCmds' = nCmds + 1
    /\ result' = "pending"
    /\ cpc' = "join"
    /\ UNCHANGED <<kind, ext, store, published, eventLoop, lockOwner, waiters,
                   triggered, nExt, wpc, snap, snapRev, history>>

\* SDPDevice.stop_event_loop, first part: the with block
StopEventLoop ==
    /\ cpc = "idle"
    /\ Spent < MaxCmds
    /\ CanEnter
    /\ deleting' = TRUE
    /\ triggered' = IF watcher # None THEN TRUE ELSE triggered
    /\ watcher' = None
    /\ cmd' = [name |-> "stop_event_loop", arg |-> NoArg, txn |-> 0]
    /\ nCmds' = nCmds + 1
    /\ result' = "pending"
    /\ cpc' = "join"
    /\ UNCHANGED <<kind, ext, store, published, eventLoop, lockOwner, waiters,
                   nExt, wpc, snap, snapRev, history>>

\* SDPDevice.stop_event_loop, second part: join the thread
StopJoin ==
    /\ cpc = "join"
    /\ eventLoop # None => wpc = "done"
    /\ eventLoop' = None
    /\ cpc' = "idle"
    /\ result' = "OK"
    /\ UNCHANGED <<kind, ext, store, published, deleting, watcher, lockOwner,
                   waiters, triggered, cmd, nCmds, nExt, wpc, snap, snapRev,
                   history>>

\* ------------------------------------------------------ event-loop thread
\* What one watch transaction reads through the typed view of the record
\* (SDPMaster._set_from_config / SDPSubarray._set_from_config).
ReadSnap(k, st) ==
    IF k = "master"
    THEN [NoSnap EXCEPT !.state = StateView(st.master.state)]
    ELSE [state |-> StateView(Get(st, "state")),
          receive_addresses |-> ReceiveAddresses(st),
          scan_type |-> ScanTypeOf(st),
          scan_id |-> ScanIdOf(st),
          obs_state_target |-> ObsStateView(Get(st, "obs_state_target")),
          command |-> Get(st, "last_command")]

\* DerivedObsState publishing the target whatever the last command was
DerivedObsState_Target(sn) == sn.obs_state_target

\* DerivedObsState never leaving RESOURCING after AssignResources
DerivedObsState_Unresolved(sn) ==
    IF sn.obs_state_target = "IDLE" /\ sn.command = "AssignResources"
    THEN "RESOURCING"
    ELSE sn.obs_state_target

\* SDPSubarray._set_from_config: the obsState to publish
DerivedObsState(sn) ==
    IF sn.obs_state_target = "IDLE" /\ sn.command = "AssignResources"
    THEN IF sn.receive_addresses = None THEN "RESOURCING" ELSE "IDLE"
    ELSE sn.obs_state_target

\* SDPSubarray._set_from_config: the scanType to publish
DerivedScanType(sn) == IF sn.scan_type # None THEN sn.scan_type ELSE "null"

\* SDPSubarray._set_from_config: the scanID to publish
DerivedScanID(sn) == IF sn.scan_id # NoScanId /\ sn.scan_id # 0
                     THEN sn.scan_id ELSE 0

\* AfterStep notifying before obsState has been set
AfterStep_NotifyEarly(k, pc) ==
    CASE pc = "setState" -> IF k = "master" THEN "notify" ELSE "setRecv"
      [] pc = "setRecv" -> "setScanType"
      [] pc = "setScanType" -> "setScanID"
      [] pc = "setScanID" -> "notify"
      [] pc = "setObs" -> "notify"
      [] pc = "notify" -> "release"

\* SDPDevice._do_transaction: the statements of one pass, in order
AfterStep(k, pc) ==
    CASE pc = "setState" -> IF k = "master" THEN "notify" ELSE "setRecv"
      [] pc = "setRecv" -> "setScanType"
      [] pc = "setScanType" -> "setScanID"
      [] pc = "setScanID" -> "setObs"
      [] pc = "setObs" -> "notify"
      [] pc = "notify" -> "release"

PassSteps == {"setState", "setRecv", "setScanType", "setScanID", "setObs",
              "notify", "release"}

\* WatcherWake that yields only for the revisions the commands committed
WatcherWake_OwnWrites ==
    /\ wpc = "watch"
    /\ (store.rev # snapRev /\ store.rev = cmdRev) \/ triggered
    /\ triggered' = FALSE
    /\ wpc' = "lock"
    /\ UNCHANGED <<kind, ext, store, published, device, lockOwner, waiters,
                   cmdThread, nExt, snap, snapRev, history>>

\* the watcher iterator yields: at once the first time, then when the
\* revision it read is no longer the latest or when it has been triggered
WatcherWake ==
    /\ wpc = "watch"
    /\ store.rev # snapRev \/ triggered
    /\ triggered' = FALSE
    /\ wpc' = "lock"
    /\ UNCHANGED <<kind, ext, store, published, device, lockOwner, waiters,
                   cmdThread, nExt, snap, snapRev, history>>

\* LoopEnter that does not look at the deleting flag
LoopEnter_NoCheck ==
    /\ wpc = "lock"
    /\ CanEnter
    /\ lockOwner' = Entered("loop")
    /\ watcher' = "w"
    /\ snap' = ReadSnap(kind, store)
    /\ snapRev' = store.rev
    /\ pushed' = {}
    /\ wpc' = "setState"
    /\ UNCHANGED <<kind, epc, queue, store, published, deleting, eventLoop, waiters,
                   triggered, cmdThread, nExt, history>>

\* set_attributes: with self._hold_lock(): if self._deleting: break;
\* self._watcher = watcher; _do_transaction opens the watch transaction
LoopEnter ==
    /\ wpc = "lock"
    /\ CanEnter
    /\ IF deleting
       THEN /\ watcher' = None
            /\ wpc' = "done"
            /\ UNCHANGED <<lockOwner, snap, snapRev, pushed>>
       ELSE /\ lockOwner' = Entered("loop")
            /\ watcher' = "w"
            /\ snap' = ReadSnap(kind, store)
            /\ snapRev' = store.rev
            /\ pushed' = {}
            /\ wpc' = "setState"
    /\ UNCHANGED <<kind, epc, queue, store, published, deleting, eventLoop, waiters,
                   triggered, cmdThread, nExt, history>>

\* an exception leaves the with block and the for loop: it is caught
\* outside the loop, the finally clause clears _watcher, the thread ends
\* (a single pass made by update_attributes raises to its caller)
LoopRaise ==
    /\ lockOwner' = IF lockOwner = "loop" THEN None ELSE lockOwner
    /\ watcher' = None
    /\ wpc' = IF eventLoop = "fake" THEN "idle" ELSE "done"
    /\ passFailed' = TRUE

\* Push pushing an event whether or not the value changes
Push_Always(attr, changed) == pushed' = pushed \cup {attr}

\* "if self._x != value: self._x = value; self.push_change_event(...)" of
\* the attribute-setting methods: the event is pushed when the value changes
Push(attr, changed) == pushed' = IF changed THEN pushed \cup {attr} ELSE pushed

\* SDPDevice._set_state
LoopSetState ==
    /\ wpc = "setState"
    /\ IF devState # snap.state /\ snap.state = None
       THEN LoopRaise /\ UNCHANGED <<devState, pushed>>
       ELSE /\ devState' = snap.state
            /\ Push("State", devState # snap.state)
            /\ wpc' = AfterStep(kind, wpc)
            /\ UNCHANGED <<lockOwner, watcher, passFailed>>
    /\ UNCHANGED <<kind, epc, queue, store, obsState, recvAddr, scanType, scanID,
                   deleting, eventLoop, waiters, triggered, cmdThread, nExt,
                   snap, snapRev, cmdRev, appliedRev>>

\* SDPSubarray._set_receive_addresses
LoopSetRecv ==
    /\ wpc = "setRecv"
    /\ recvAddr' = snap.receive_addresses
    /\ Push("receiveAddresses", recvAddr # snap.receive_addresses)
    /\ wpc' = AfterStep(kind, wpc)
    /\ UNCHANGED <<kind, epc, queue, store, devState, obsState, scanType, scanID, device,
                   lockOwner, waiters, triggered, cmdThread, nExt, snap,
                   snapRev, history>>

\* SDPSubarray._set_scan_type
LoopSetScanType ==
    /\ wpc = "setScanType"
    /\ scanType' = DerivedScanType(snap)
    /\ Push("scanType", scanType # DerivedScanType(snap))
    /\ wpc' = AfterStep(kind, wpc)
    /\ UNCHANGED <<kind, epc, queue, store, devState, obsState, recvAddr, scanID, device,
                   lockOwner, waiters, triggered, cmdThread, nExt, snap,
                   snapRev, history>>

\* SDPSubarray._set_scan_id
LoopSetScanID ==
    /\ wpc = "setScanID"
    /\ scanID' = DerivedScanID(snap)
    /\ Push("scanID", scanID # DerivedScanID(snap))
    /\ wpc' = AfterStep(kind, wpc)
    /\ UNCHANGED <<kind, epc, queue, store, devState, obsState, recvAddr, scanType,
                   device, lockOwner, waiters, triggered, cmdThread, nExt,
                   snap, snapRev, history>>

\* SDPSubarray._set_obs_state
LoopSetObs ==
    /\ wpc = "setObs"
    /\ IF obsState # DerivedObsState(snap) /\ DerivedObsState(snap) = None
       THEN LoopRaise /\ UNCHANGED <<obsState, pushed>>
       ELSE /\ obsState' = DerivedObsState(snap)
            /\ Push("obsState", obsState # DerivedObsState(snap))
            /\ wpc' = AfterStep(kind, wpc)
            /\ UNCHANGED <<lockOwner, watcher, passFailed>>
    /\ UNCHANGED <<kind, epc, queue, store, devState, recvAddr, scanType, scanID,
                   deleting, eventLoop, waiters, triggered, cmdThread, nExt,
                   snap, snapRev, cmdRev, appliedRev>>

\* LoopNotify that wakes nobody
LoopNotify_NoWake ==
    /\ wpc = "notify"
    /\ appliedRev' = snapRev
    /\ wpc' = "release"
    /\ UNCHANGED <<kind, ext, store, published, device, lockOwner, waiters,
                   triggered, cmdThread, nExt, snap, snapRev, cmdRev,
                   passFailed>>

\* LoopNotify calling notify(): one of the waiting threads is woken
LoopNotify_One ==
    /\ wpc = "notify"
    /\ IF waiters = {}
       THEN UNCHANGED <<waiters, cpc, epc>>
       ELSE \E t \in waiters :
              /\ waiters' = waiters \ {t}
              /\ cpc' = IF t = "cmd" THEN "woken" ELSE cpc
              /\ epc' = IF t = "wfe" THEN "woken" ELSE epc
    /\ appliedRev' = snapRev
    /\ wpc' = AfterStep(kind, wpc)
    /\ UNCHANGED <<kind, pushed, queue, store, published, device, lockOwner,
                   triggered, cmd, result, nCmds, nExt, snap, snapRev, cmdRev,
                   passFailed>>

\* _RealThread.notify: condition.notify_all() wakes every waiting thread
LoopNotify ==
    /\ wpc = "notify"
    /\ waiters' = {}
    /\ cpc' = IF "cmd" \in waiters THEN "woken" ELSE cpc
    /\ epc' = IF "wfe" \in waiters THEN "woken" ELSE epc
    /\ appliedRev' = snapRev
    /\ wpc' = AfterStep(kind, wpc)
    /\ UNCHANGED <<kind, pushed, queue, store, published, device, lockOwner,
                   triggered, cmd, result, nCmds, nExt, snap, snapRev, cmdRev,
                   passFailed>>

\* set_attributes: the with block ends, back to the watcher iterator
LoopRelease ==
    /\ wpc = "release"
    /\ lockOwner' = IF lockOwner = "loop" THEN None ELSE lockOwner
    /\ wpc' = IF eventLoop = "fake" THEN "idle" ELSE "watch"
    /\ UNCHANGED <<kind, ext, store, published, device, waiters, triggered,
                   cmdThread, nExt, snap, snapRev, history>>

\* -------------------------------------------------- other store clients
\* The receive workflow creates the state of its processing block and
\* links it from the SBI (as create_pb_states does in the device tests).
WorkflowCreatesPbState(p) ==
    /\ store.pb[p] # None
    /\ store.pbState[p] = "absent"
    /\ store' = Commit([store EXCEPT
                          !.pbState[p] = "noaddr",
                          !.sbi[store.pb[p]].pb_receive_addresses = p])
    /\ UNCHANGED <<kind, ext, published, device, lockOwner, waiters, triggered,
                   cmdThread, nExt, wpc, snap, snapRev, history>>

\* The receive workflow writes the receive addresses into its state.
WorkflowWritesAddresses(p) ==
    /\ store.pbState[p] = "noaddr"
    /\ store' = Commit([store EXCEPT !.pbState[p] = "addr"])
    /\ UNCHANGED <<kind, ext, published, device, lockOwner, waiters, triggered,
                   cmdThread, nExt, wpc, snap, snapRev, history>>

\* Another client writes one field of the device record (state or
\* obs_state_target) through the low-level interface, a valid name or not.
ExternalWrite(field, value) ==
    /\ nExt < MaxExt
    /\ Spent + 1 < MaxCmds
    /\ nExt' = nExt + 1
    /\ store' = Commit(IF kind = "master"
                       THEN [store EXCEPT !.master[field] = value]
                       ELSE Set(store, field, value))
    /\ UNCHANGED <<kind, ext, published, device, lockOwner, waiters, triggered,
                   cmdThread, wpc, snap, snapRev, history>>

ExternalStates == DevStateNames \cup {"invalid"}
ExternalObsStates == ObsStateNames \cup {"invalid"}

\* ---------------------------------------------------------- specifications
CommandStep ==
    \/ \E c \in MasterCommands \cup SubarrayCommands : \E a \in Args(c) : Call(c, a)
    \/ CmdDo
    \/ CmdExec
    \/ CmdWait
    \/ CmdWake
    \/ CmdReturn

StopStep ==
    \/ StopEventLoop
    \/ StopJoin

LoopStep ==
    \/ WatcherWake
    \/ LoopEnter
    \/ LoopSetState
    \/ LoopSetRecv
    \/ LoopSetScanType
    \/ LoopSetScanID
    \/ LoopSetObs
    \/ LoopNotify
    \/ LoopRelease

WorkflowStep ==
    \/ \E p \in PbIds : WorkflowCreatesPbState(p)
    \/ \E p \in PbIds : WorkflowWritesAddresses(p)

ExternalStep ==
    \/ \E s \in ExternalStates : ExternalWrite("state", s)
    \/ \E t \in ExternalObsStates :
          kind = "subarray" /\ ExternalWrite("obs_state_target", t)

Next == CommandStep \/ StopStep \/ LoopStep \/ WorkflowStep

Spec == Init /\ [][Next]_vars

NextExt == Next \/ ExternalStep

SpecExt == Init /\ [][NextExt]_vars

\* The event-loop thread keeps running while it can take a step, and a
\* command that has been dispatched keeps running until it blocks.
LoopProgress == LoopStep

CmdProgress == CmdDo \/ CmdExec \/ CmdWait \/ CmdWake \/ CmdReturn \/ StopJoin

FairSpec == Spec /\ WF_vars(LoopProgress) /\ WF_vars(CmdProgress)

FairSpecExt == SpecExt /\ WF_vars(LoopProgress) /\ WF_vars(CmdProgress)

\* ------------------------------------- clients of the configuration layer
\* --------------------------------------------------- re-initialisation
\* Tango's Init: delete_device (stop_event_loop, above), then init_device.
\* Threads that can run init_device: the main thread at server start, any
\* other thread for an Init request.
InitThreads == {"main", "other"}

\* InitDevice writing the initial values over the record
InitDevice_Reset(t) ==
    /\ cpc = "idle"
    /\ eventLoop = None /\ wpc = "done"
    /\ cmd' = [name |-> "init_device", arg |-> NoArg, txn |-> 0]
    /\ result' = "OK"
    /\ deleting' = FALSE
    /\ watcher' = None
    /\ updateQueue' = <<>>
    /\ devState' = "INIT"
    /\ IF kind = "subarray"
       THEN obsState' = None /\ recvAddr' = None /\ scanType' = "null"
            /\ scanID' = 0
       ELSE UNCHANGED <<obsState, recvAddr, scanType, scanID>>
    /\ store' = Commit(CreateIfNotPresent_Overwrite(kind, store))
    /\ IF t = "main"
       THEN eventLoop' = "thread" /\ wpc' = "watch" /\ snapRev' = -1
            /\ triggered' = FALSE
       ELSE UNCHANGED <<eventLoop, wpc, snapRev, triggered>>
    /\ appliedRev' = -1
    /\ UNCHANGED <<kind, pushed, epc, delivered, lockOwner, waiters, cpc,
                   nCmds, nExt, snap, cmdRev, passFailed>>

\* SDPMaster.init_device / SDPSubarray.init_device run by thread t after
\* the teardown: the private values go back to their initial values, the
\* record is created if it is not there, and _start_event_loop starts a new
\* event loop (whose watcher yields at once) only in the main thread.
InitDevice(t) ==
    /\ cpc = "idle"
    /\ eventLoop = None /\ wpc = "done"
    /\ cmd' = [name |-> "init_device", arg |-> NoArg, txn |-> 0]
    /\ result' = "OK"
    /\ deleting' = FALSE
    /\ watcher' = None
    /\ updateQueue' = <<>>
    /\ devState' = "INIT"
    /\ IF kind = "subarray"
       THEN obsState' = None /\ recvAddr' = None /\ scanType' = "null"
            /\ scanID' = 0
       ELSE UNCHANGED <<obsState, recvAddr, scanType, scanID>>
    /\ store' = RunTxn(store, Ok(CreateIfNotPresent(kind, store)))
    /\ IF t = "main"
       THEN eventLoop' = "thread" /\ wpc' = "watch" /\ snapRev' = -1
            /\ triggered' = FALSE
       ELSE UNCHANGED <<eventLoop, wpc, snapRev, triggered>>
    /\ appliedRev' = -1
    /\ UNCHANGED <<kind, pushed, epc, delivered, lockOwner, waiters, cpc,
                   nCmds, nExt, snap, cmdRev, passFailed>>

ReinitStep == \E t \in InitThreads : InitDevice(t)

NextReinit == Next \/ ReinitStep

SpecReinit == Init /\ [][NextReinit]_vars

\* ------------------------------------------- a subarray that has stopped
\* The record and SBI of a subarray after On and AssignResources(a), with
\* the receive workflow at stage w, once the observation has stopped: by
\* Abort (allowed in IDLE, so after the addresses were written) or by
\* another client writing obs_state_target = FAULT.
StoppedStore(a, w, how) ==
    LET s1 == Commit(BodyOn(0, InitStore).st)
        s2 == Commit(BodyAssignResources(a, 0, s1).st)
        p == CHOOSE q \in a.pbs : TRUE
        s3 == IF w = "absent" THEN s2
              ELSE Commit([s2 EXCEPT !.pbState[p] = "noaddr",
                                     !.sbi[a.id].pb_receive_addresses = p])
        s4 == IF w = "addr" THEN Commit([s3 EXCEPT !.pbState[p] = "addr"])
              ELSE s3
    IN IF how = "Abort" THEN Commit(BodyAbort(0, s4).st)
       ELSE Commit(Set(s4, "obs_state_target", "FAULT"))

\* The device of such a subarray, its event loop watching after the pass
\* that published the stopped state.
InitStopped ==
    /\ kind = "subarray"
    /\ \E a \in {x \in AssignArgs \ BadArgs : x.id = "eb1"},
          w \in {"absent", "noaddr", "addr"},
          how \in {"Abort", "FAULT"} :
          /\ how = "Abort" => w = "addr"
          /\ store = StoppedStore(a, w, how)
    /\ snap = ReadSnap(kind, store)
    /\ snapRev = store.rev
    /\ devState = snap.state
    /\ obsState = DerivedObsState(snap)
    /\ recvAddr = snap.receive_addresses
    /\ scanType = DerivedScanType(snap)
    /\ scanID = DerivedScanID(snap)
    /\ deleting = FALSE
    /\ watcher = None
    /\ eventLoop = "thread"
    /\ lockOwner = None
    /\ waiters = {}
    /\ triggered = FALSE
    /\ cpc = "idle"
    /\ cmd = NoCall
    /\ result = None
    /\ nCmds = 0
    /\ nExt = 0
    /\ wpc = "watch"
    /\ cmdRev = store.rev
    /\ appliedRev = store.rev
    /\ passFailed = FALSE
    /\ pushed = {}
    /\ epc = "idle"
    /\ updateQueue = <<>>
    /\ delivered = <<>>

SpecStopped == InitStopped /\ [][Next]_vars

\* --------------------------------------- a subarray that is switched on
\* The device of a subarray after On has returned: the record is ON with
\* target EMPTY, the pass that published it has completed and the event
\* loop is watching.
InitSwitchedOn ==
    /\ kind = "subarray"
    /\ store = Commit(BodyOn(0, InitStore).st)
    /\ snap = ReadSnap(kind, store)
    /\ snapRev = store.rev
    /\ devState = snap.state
    /\ obsState = DerivedObsState(snap)
    /\ recvAddr = snap.receive_addresses
    /\ scanType = DerivedScanType(snap)
    /\ scanID = DerivedScanID(snap)
    /\ deleting = FALSE
    /\ watcher = None
    /\ eventLoop = "thread"
    /\ lockOwner = None
    /\ waiters = {}
    /\ triggered = FALSE
    /\ cpc = "idle"
    /\ cmd = NoCall
    /\ result = None
    /\ nCmds = 0
    /\ nExt = 0
    /\ wpc = "watch"
    /\ cmdRev = store.rev
    /\ appliedRev = store.rev
    /\ passFailed = FALSE
    /\ pushed = {}
    /\ epc = "idle"
    /\ updateQueue = <<>>
    /\ delivered = <<>>

\* another client saves the record as it is: a new revision, same values
TouchStep == ExternalWrite("state", "ON")

NextSwitchedOn == Next \/ TouchStep

FairSpecSwitchedOn ==
    InitSwitchedOn /\ [][NextSwitchedOn]_vars
        /\ WF_vars(LoopProgress) /\ WF_vars(CmdProgress)

\* ------------------------------------------- a caller of wait_for_event
\* SDPDevice.wait_for_event called by another thread: inside
\* "with self._hold_lock()", _RealThread.wait blocks in condition.wait(),
\* which releases the condition. Without an event loop it returns at once.
WaitForEvent ==
    /\ epc = "idle"
    /\ CanEnter
    /\ IF eventLoop # None
       THEN waiters' = waiters \cup {"wfe"} /\ epc' = "waiting"
       ELSE UNCHANGED <<waiters, epc>>
    /\ UNCHANGED <<kind, pushed, queue, store, published, device, lockOwner,
                   triggered, cmdThread, nExt, wpc, snap, snapRev, history>>

\* condition.wait() returns once notified and the condition is free again;
\* the with blocks end and release it.
WaitReturn ==
    /\ epc = "woken"
    /\ lockOwner = None
    /\ epc' = "idle"
    /\ UNCHANGED <<kind, pushed, queue, store, published, device, lockOwner,
                   waiters, triggered, cmdThread, nExt, wpc, snap, snapRev,
                   history>>

WaitStep == WaitForEvent \/ WaitReturn

NextWait == Next \/ WaitStep

SpecWait == Init /\ [][NextWait]_vars

\* ---------------------------------------- commands that schedule updates
QueueStep == \E u \in Updates : CmdSchedule(u)

NextQueue == Next \/ QueueStep

SpecQueue == Init /\ [][NextQueue]_vars

\* ------------------------------------------------------- poll-once mode
\* The state after init_device in the main thread with the event-loop
\* feature off: new_event_loop returns a _FakeThread, whose start does
\* nothing; no thread runs set_attributes.
InitPoll ==
    /\ kind \in {"master", "subarray"}
    /\ store = InitStore
    /\ devState = "INIT"
    /\ obsState = None
    /\ recvAddr = None
    /\ scanType = "null"
    /\ scanID = 0
    /\ deleting = FALSE
    /\ watcher = None
    /\ eventLoop = "fake"
    /\ lockOwner = None
    /\ waiters = {}
    /\ triggered = FALSE
    /\ cpc = "idle"
    /\ cmd = NoCall
    /\ result = None
    /\ nCmds = 0
    /\ nExt = 0
    /\ wpc = "idle"
    /\ snap = NoSnap
    /\ snapRev = -1
    /\ cmdRev = 0
    /\ appliedRev = -1
    /\ passFailed = FALSE
    /\ pushed = {}
    /\ epc = "idle"
    /\ updateQueue = <<>>
    /\ delivered = <<>>

\* UpdateAttributes starting a pass over the snapshot of the last one
UpdateAttributes_NoRead ==
    /\ eventLoop = "fake"
    /\ wpc = "idle"
    /\ cpc = "idle"
    /\ pushed' = {}
    /\ wpc' = "setState"
    /\ UNCHANGED <<kind, epc, queue, store, published, device, lockOwner,
                   waiters, triggered, cmdThread, nExt, snap, snapRev,
                   history>>

\* SDPDevice.update_attributes: set_attributes(loop=False) calls
\* _do_transaction(self._config), one transaction on the store as it is,
\* in the caller's thread and outside any lock. It is a command of the
\* device like the others (_add_commands): the framework runs the commands
\* of one device one at a time.
UpdateAttributes ==
    /\ eventLoop = "fake"
    /\ wpc = "idle"
    /\ cpc = "idle"
    /\ snap' = ReadSnap(kind, store)
    /\ snapRev' = store.rev
    /\ pushed' = {}
    /\ wpc' = "setState"
    /\ UNCHANGED <<kind, epc, queue, store, published, device, lockOwner,
                   waiters, triggered, cmdThread, nExt, history>>

PollCommandStep ==
    \/ \E c \in MasterCommands \cup SubarrayCommands : \E a \in Args(c) : Call(c, a)
    \/ CmdDo
    \/ CmdExec
    \/ CmdWait
    \/ CmdReturn

PollStep ==
    \/ UpdateAttributes
    \/ LoopSetState
    \/ LoopSetRecv
    \/ LoopSetScanType
    \/ LoopSetScanID
    \/ LoopSetObs
    \/ LoopNotify
    \/ LoopRelease

NextPoll == PollCommandStep \/ PollStep \/ WorkflowStep

SpecPoll == InitPoll /\ [][NextPoll]_vars

\* A client that uses MasterConfig / SubarrayConfig without a device, one
\* transaction per step, as the configuration tests do: the transactions of
\* the command bodies, the typed setters, low-level writes, and reads.
cfgIdle == <<kind, ext, published, device, lockOwner, waiters, triggered, cpc,
             nExt, wpc, history>>

InitConfig ==
    /\ kind \in {"master", "subarray"}
    /\ store \in {EmptyStore, InitStore}
    /\ devState = "INIT"
    /\ obsState = None
    /\ recvAddr = None
    /\ scanType = "null"
    /\ scanID = 0
    /\ deleting = FALSE
    /\ watcher = None
    /\ eventLoop = None
    /\ lockOwner = None
    /\ waiters = {}
    /\ triggered = FALSE
    /\ cpc = "idle"
    /\ cmd = NoCall
    /\ result = None
    /\ nCmds = 0
    /\ nExt = 0
    /\ wpc = "done"
    /\ snap = NoSnap
    /\ snapRev = -1
    /\ cmdRev = 0
    /\ appliedRev = -1
    /\ passFailed = FALSE
    /\ pushed = {}
    /\ epc = "idle"
    /\ updateQueue = <<>>
    /\ delivered = <<>>

\* one transaction whose body has the outcome r
ConfigOp(name, a, r) ==
    /\ nCmds < MaxOps
    /\ cmd' = [name |-> name, arg |-> a, txn |-> nCmds + 1]
    /\ nCmds' = nCmds + 1
    /\ store' = RunTxn(store, r)
    /\ result' = IF r.err = "" THEN "OK" ELSE r.err
    /\ UNCHANGED <<snap, snapRev, cfgIdle>>

\* init_device: create_if_not_present in a transaction of its own
CfgCreate == ConfigOp("create_if_not_present", NoArg,
                      Ok(CreateIfNotPresent(kind, store)))

\* the values the client writes into the record
CfgStates == {"ON", "OFF", "invalid"}
CfgObsStates == {"IDLE", "ABORTED", "invalid"}

\* a low-level write of one field of the record
CfgWrite(field, value) ==
    /\ kind \in store.present
    /\ ConfigOp("low_level", NoArg,
                Ok(IF kind = "master"
                   THEN [store EXCEPT !.master[field] = value]
                   ELSE Set(store, field, value)))

\* the transaction of a command body, for a device whose published
\* attributes are those of the record it runs on
CfgCommand(c, a) ==
    /\ kind \in store.present
    /\ c \in Commands(kind)
    /\ a \in Args(c)
    /\ LET sn == ReadSnap(kind, store)
           obs == IF kind = "subarray" THEN DerivedObsState(sn) ELSE None
       IN /\ IsAllowed(kind, c, sn.state, obs)
          /\ ConfigOp(c, a, Body(kind, c, a, nCmds + 1, store, obs))

\* fake_sbi_and_pbs of the configuration tests: an SBI whose scan types
\* carry their identifier under "id" (its receive PB is named by the
\* workflow step, as for any other SBI)
FakeArgs == {[NoArg EXCEPT !.id = i, !.scan_types = {ScanType("id", "A")},
                           !.pbs = {p}] : i \in SbiIds, p \in PbIds}

\* subarray.create_sbi_and_pbs(sbi, pbs) with a fake SBI
CfgCreateSbi(a) ==
    /\ kind = "subarray" /\ kind \in store.present
    /\ store.subarray.sbi_id = None
    /\ ConfigOp("create_sbi_and_pbs", a, CreateSbiAndPbs(store, a))

\* subarray.add_scan_types([{"id": "B"}])
CfgAddScanTypes ==
    /\ kind = "subarray" /\ kind \in store.present
    /\ LET a == [NoArg EXCEPT !.has_new = TRUE,
                              !.new_scan_types = {ScanType("id", "B")}]
       IN ConfigOp("add_scan_types", a, AddScanTypes(store, a))

\* subarray.scan_type = t
CfgSetScanType(t) ==
    /\ kind = "subarray" /\ kind \in store.present
    /\ ConfigOp("scan_type", [NoArg EXCEPT !.scan_type = t],
                SetScanType(store, t))

\* subarray.scan_id = i
CfgSetScanId(i) ==
    /\ kind = "subarray" /\ kind \in store.present
    /\ ConfigOp("scan_id", [NoArg EXCEPT !.scan_id = i],
                Ok(SetScanId(store, i)))

\* a transaction that reads the record through the typed view
CfgRead ==
    /\ kind \in store.present
    /\ nCmds < MaxOps
    /\ cmd' = [name |-> "read", arg |-> NoArg, txn |-> nCmds + 1]
    /\ nCmds' = nCmds + 1
    /\ result' = "OK"
    /\ snap' = ReadSnap(kind, store)
    /\ snapRev' = store.rev
    /\ UNCHANGED <<store, cfgIdle>>

NextConfig ==
    \/ CfgCreate
    \/ \E v \in CfgStates : CfgWrite("state", v)
    \/ \E v \in CfgObsStates :
          kind = "subarray" /\ CfgWrite("obs_state_target", v)
    \/ \E c \in MasterCommands \cup SubarrayCommands :
          \E a \in Args(c) : CfgCommand(c, a)
    \/ \E a \in FakeArgs : CfgCreateSbi(a)
    \/ CfgAddScanTypes
    \/ \E t \in ScanTypeIds \cup {None} : CfgSetScanType(t)
    \/ \E i \in {1, NoScanId} : CfgSetScanId(i)
    \/ CfgRead
    \/ WorkflowStep

SpecConfig == InitConfig /\ [][NextConfig]_vars

\* ------------------------------------------- sequences of command bodies
\* The store as the device tests prepare it for a subarray that is ON and
\* IDLE (set_state_and_obs_state): the record, a linked SBI whose scan
\* types carry their identifier under "id", its processing block, and the
\* state of the receive workflow with the receive addresses.
PreparedStore ==
    LET a == CHOOSE x \in FakeArgs : x.id = "eb1" /\ x.pbs = {"pb1"}
        s1 == Set(Set(InitStore, "state", "ON"), "obs_state_target", "IDLE")
        s2 == CreateSbiAndPbs(s1, a).st
    IN Commit([s2 EXCEPT !.pbState["pb1"] = "addr",
                         !.sbi["eb1"].pb_receive_addresses = "pb1"])

\* A subarray record on which the bodies of the Subarray commands run one
\* after the other, each under its guard on the values derived from the
\* store, starting from the initial record or from the prepared one.
InitCommands ==
    /\ kind = "subarray"
    /\ store \in {InitStore, PreparedStore}
    /\ devState = "INIT"
    /\ obsState = None
    /\ recvAddr = None
    /\ scanType = "null"
    /\ scanID = 0
    /\ deleting = FALSE
    /\ watcher = None
    /\ eventLoop = None
    /\ lockOwner = None
    /\ waiters = {}
    /\ triggered = FALSE
    /\ cpc = "idle"
    /\ cmd = NoCall
    /\ result = None
    /\ nCmds = 0
    /\ nExt = 0
    /\ wpc = "done"
    /\ snap = NoSnap
    /\ snapRev = -1
    /\ cmdRev = 0
    /\ appliedRev = -1
    /\ passFailed = FALSE
    /\ pushed = {}
    /\ epc = "idle"
    /\ updateQueue = <<>>
    /\ delivered = <<>>

NextCommands ==
    \/ \E c \in SubarrayCommands : \E a \in Args(c) : CfgCommand(c, a)
    \/ WorkflowStep

SpecCommands == InitCommands /\ [][NextCommands]_vars

\* ==================================================================
\* Properties
\* ==================================================================

\* the command thread is past the wait of _RealThread.do
AfterWait == cpc = "flush"

\* the last dispatched device command has returned normally to its caller
Returned == cpc = "idle" /\ result = "OK" /\ cmd.name \in Commands(kind)

\* a step of the command thread that dispatches a device command
CallStep == cpc = "idle" /\ cmdThread' # cmdThread /\ cpc' # "join"

\* every published attribute holds the value derived from the snapshot sn
PublishedMatches(sn) ==
    /\ devState = sn.state
    /\ kind = "subarray" =>
          /\ recvAddr = sn.receive_addresses
          /\ scanType = DerivedScanType(sn)
          /\ scanID = DerivedScanID(sn)
          /\ obsState = DerivedObsState(sn)

\* C1: a command that committed a write is past its wait, or has returned,
\* only after a pass that read a revision not older than that write has
\* reached its notification; after an accepted On the published device
\* state is ON.
C1_ReturnAfterApply ==
    (AfterWait \/ Returned) =>
        /\ appliedRev >= cmdRev
        /\ cmd.name = "On" => devState = "ON"

C1_Witness ==
    /\ Returned
    /\ kind = "master"
    /\ cmd.name = "On"
    /\ devState = "ON"
    /\ appliedRev = cmdRev

\* C2: while a command that has written is waiting (or about to wait), no
\* pass that read its write has notified yet, and a pass that read the
\* write and is about to notify finds the command among the waiters.
C2_NoMissedNotify ==
    /\ cpc = "written" => snapRev < cmdRev
    /\ cpc = "waiting" => appliedRev < cmdRev /\ "cmd" \in waiters
    /\ (wpc = "notify" /\ snapRev >= cmdRev /\ cpc \in {"written", "waiting"})
          => "cmd" \in waiters

C2_Witness ==
    /\ cpc = "waiting"
    /\ wpc = "notify"
    /\ snapRev = cmdRev
    /\ "cmd" \in waiters

\* C3: with the event loop running, a dispatched command that passed its
\* guard eventually is back with its caller.
C3_CommandReturns == (cpc = "call") ~> (cpc = "idle")

C3_Witness ==
    /\ AfterWait
    /\ waiters = {}
    /\ wpc = "watch"
    /\ store.rev = snapRev

\* C4: after a pass of the event loop has raised, the event-loop thread is
\* still in its watcher loop.
C4_LoopSurvivesError == passFailed => wpc # "done"

\* C5: the event loop is inside a pass, or the command between taking the
\* condition and waiting on it, only as the owner of the condition; the
\* two are never there together.
C5_MutualExclusion ==
    /\ wpc \in PassSteps => lockOwner = "loop"
    /\ cpc \in {"exec", "written"} => lockOwner = "cmd"
    /\ ~(wpc \in PassSteps /\ cpc \in {"exec", "written"})

C5_Witness ==
    /\ wpc \in PassSteps
    /\ cpc = "call"
    /\ eventLoop # None

\* C6: when a pass notifies, and when a woken command can resume, every
\* published attribute holds the value derived from that pass's snapshot.
C6_PublishedBeforeNotify ==
    /\ wpc \in {"notify", "release"} => PublishedMatches(snap)
    /\ (cpc = "woken" /\ lockOwner = None) =>
          wpc \notin PassSteps /\ PublishedMatches(snap)

C6_Witness ==
    /\ kind = "subarray"
    /\ cpc = "woken"
    /\ cmd.name = "ReleaseResources"
    /\ devState = "ON"
    /\ obsState = "EMPTY"
    /\ recvAddr = None
    /\ snap.command = "ReleaseResources"

\* C7: stop_event_loop returns with the event-loop thread ended.
C7_StopTerminates ==
    (cpc = "join") ~> (cpc = "idle" /\ wpc = "done" /\ eventLoop = None)

C7_Witness ==
    /\ cmd.name = "stop_event_loop"
    /\ cpc = "idle"
    /\ wpc = "done"
    /\ store.rev = snapRev
    /\ ~passFailed

\* The allow-lists of the command catalogue: device states ...
CatalogueStates(k, c) ==
    IF k = "master"
    THEN CASE c = "On" -> {"OFF", "STANDBY", "DISABLE"}
           [] c = "Disable" -> {"OFF", "STANDBY", "ON"}
           [] c = "Standby" -> {"OFF", "DISABLE", "ON"}
           [] c = "Off" -> {"STANDBY", "DISABLE", "ON"}
    ELSE IF c = "On" THEN {"OFF"} ELSE {"ON"}

\* ... and obsState values ("None" standing for obsState not yet set)
CatalogueObsStates(k, c) ==
    IF k = "master" \/ c \in {"On", "Off"} THEN ObsStateNames \cup {None}
    ELSE CASE c = "AssignResources" -> {"EMPTY"}
           [] c = "ReleaseResources" -> {"IDLE"}
           [] c = "Configure" -> {"IDLE", "READY"}
           [] c = "Scan" -> {"READY"}
           [] c = "EndScan" -> {"SCANNING"}
           [] c = "End" -> {"READY"}
           [] c = "Abort" -> {"IDLE", "CONFIGURING", "READY", "SCANNING",
                              "RESETTING"}
           [] c = "ObsReset" -> {"ABORTED", "FAULT"}
           [] c = "Restart" -> {"ABORTED", "FAULT"}

\* ... and the state each Master command is to leave in the master record
CatalogueTarget(c) ==
    CASE c = "On" -> "ON"
      [] c = "Disable" -> "DISABLE"
      [] c = "Standby" -> "STANDBY"
      [] c = "Off" -> "OFF"

C9_MasterCommands ==
    [][kind = "master" =>
         /\ CallStep =>
               (cpc' = "call" <=> devState \in CatalogueStates("master", cmd'.name))
         /\ (cpc = "exec" /\ cpc' # "exec") =>
               /\ cpc' = "written"
               /\ store'.master.state = CatalogueTarget(cmd.name)
               /\ store'.master.transaction_id = cmd.txn
         /\ (cpc = "flush" /\ cpc' = "idle") =>
               /\ store.master.state = CatalogueTarget(cmd.name)
               /\ devState = CatalogueTarget(cmd.name)]_vars

C9_Witness ==
    /\ kind = "master"
    /\ Returned
    /\ cmd.name = "Off"
    /\ cmd.txn = 3
    /\ devState = "OFF"
    /\ store.master.state = "OFF"

\* C10 as stated: Subarray On passes its guard whenever the published
\* device state is OFF, whatever the published obsState.
C10_OnWheneverOff ==
    [][(kind = "subarray" /\ CallStep /\ cmd'.name = "On" /\ devState = "OFF")
       => cpc' = "call"]_vars

\* C10 amended: Subarray On passes its guard exactly when the published
\* device state is OFF and the published obsState is EMPTY; its body sets
\* the stored state to ON and the target obsState to EMPTY.
C10_OnWhenOffAndEmpty ==
    [][(kind = "subarray" /\ cmd'.name = "On") =>
         /\ CallStep =>
               (cpc' = "call" <=> (devState = "OFF" /\ obsState = "EMPTY"))
         /\ (cpc = "exec" /\ cpc' # "exec") =>
               /\ cpc' = "written"
               /\ store'.subarray.state = "ON"
               /\ store'.subarray.obs_state_target = "EMPTY"
               /\ store'.subarray.last_command = "On"]_vars

C10_Witness ==
    /\ kind = "subarray"
    /\ cmd.name = "On"
    /\ cpc = "idle"
    /\ result = "CommandNotAllowed"
    /\ devState = "OFF"
    /\ obsState # "EMPTY"

\* the state of the processing block the linked SBI names for its receive
\* addresses holds addresses
AddressesWritten ==
    LET i == store.subarray.sbi_id
    IN /\ i # None
       /\ store.sbi[i].pb_receive_addresses # None
       /\ store.pbState[store.sbi[i].pb_receive_addresses] = "addr"

\* C11: the obsState a pass has published is RESOURCING when the target is
\* IDLE, the last command AssignResources and the receive addresses null,
\* IDLE when they are not null, and the stored target in every other case.
C11_DerivedObsState ==
    (kind = "subarray" /\ wpc \in {"notify", "release"}) =>
        /\ obsState =
              (IF snap.obs_state_target = "IDLE" /\ snap.command = "AssignResources"
               THEN (IF snap.receive_addresses = None THEN "RESOURCING" ELSE "IDLE")
               ELSE snap.obs_state_target)
        /\ (store.rev = snapRev /\ store.subarray.obs_state_target \in ObsStateNames) =>
              obsState =
                (IF /\ store.subarray.obs_state_target = "IDLE"
                    /\ store.subarray.last_command = "AssignResources"
                 THEN (IF AddressesWritten THEN "IDLE" ELSE "RESOURCING")
                 ELSE store.subarray.obs_state_target)

C11_Witness ==
    /\ kind = "subarray"
    /\ wpc = "notify"
    /\ obsState = "IDLE"
    /\ snap.command = "AssignResources"
    /\ snap.receive_addresses # None
    /\ store.rev = snapRev

\* the addresses are written, the record still asks for IDLE after
\* AssignResources and the event loop has not been told to stop
Resolved ==
    /\ kind = "subarray"
    /\ store.subarray.obs_state_target = "IDLE"
    /\ store.subarray.last_command = "AssignResources"
    /\ AddressesWritten
    /\ ~deleting

\* C12: AssignResources returns with obsState RESOURCING as long as the
\* addresses are not written; once they are, obsState becomes IDLE without
\* a command (unless a command or a stop intervenes), and the step from
\* RESOURCING to IDLE leaves the store as it is.
C12_ResourcingThenIdle ==
    /\ []((Returned /\ cmd.name = "AssignResources" /\ ~AddressesWritten)
            => obsState = "RESOURCING")
    /\ (Resolved ~> (obsState = "IDLE" \/ ~Resolved))
    /\ [][(obsState = "RESOURCING" /\ obsState' = "IDLE") => store' = store]_vars

C12_Witness ==
    /\ Returned
    /\ cmd.name = "AssignResources"
    /\ Resolved
    /\ obsState = "IDLE"
    /\ recvAddr # None

\* a step of the configuration client: one transaction has run
ConfigStep == nCmds' = nCmds + 1 /\ eventLoop = None

\* the call of the step carries a payload that passed the validation
ValidPayload == cmd'.arg.keyed /\ cmd'.arg.valid

\* C13: AssignResources with a valid payload whose SBI id or one of whose PB
\* ids is already in the store fails with CommandFailed and leaves the store
\* as it was.
C13_DuplicateIdsRejected ==
    [][(/\ ConfigStep
        /\ cmd'.name = "AssignResources"
        /\ ValidPayload
        /\ \/ store.sbi[cmd'.arg.id].exists
           \/ \E p \in cmd'.arg.pbs : store.pb[p] # None)
       => (result' = "CommandFailed" /\ store' = store)]_vars

C13_Witness ==
    /\ eventLoop = None
    /\ cmd.name = "AssignResources"
    /\ cmd.arg.keyed /\ cmd.arg.valid
    /\ result = "CommandFailed"
    /\ ~store.sbi[cmd.arg.id].exists
    /\ \E p \in cmd.arg.pbs : store.pb[p] # None
    /\ store.subarray.sbi_id = None

\* C14: AssignResources, Configure or Scan whose payload does not get
\* through the validation ends in CommandFailed and leaves the store as it
\* was.
C14_InvalidPayloadCommandFailed ==
    [][(/\ cpc = "exec" /\ cpc' # "exec"
        /\ cmd.name \in {"AssignResources", "Configure", "Scan"}
        /\ ~(cmd.arg.keyed /\ cmd.arg.valid))
       => (result' = "CommandFailed" /\ store' = store)]_vars

\* a step that sets the scan type (the setter itself, or Configure) for a
\* linked SBI that does not hold the requested id
UnknownScanType ==
    /\ ConfigStep
    /\ cmd'.name \in {"scan_type", "Configure"}
    /\ ValidPayload
    /\ store.subarray.sbi_id # None
    /\ cmd'.arg.scan_type # None
    /\ cmd'.arg.scan_type \notin
         ScanTypeIdsOf(store.sbi[store.subarray.sbi_id].scan_types
                       \cup cmd'.arg.new_scan_types)

\* a step that sets the scan type or the scan id while no SBI is linked
SetWithoutSbi ==
    /\ ConfigStep
    /\ cmd'.name \in {"scan_type", "scan_id"}
    /\ store.subarray.sbi_id = None

\* C15: setting a scan type the linked SBI does not hold fails with
\* CommandFailed and commits nothing; setting the scan type or the scan id
\* with no SBI linked succeeds without changing the store, and a read with no
\* SBI linked yields null for both.
C15_ScanTypeSetter ==
    [][/\ UnknownScanType => (result' = "CommandFailed" /\ store' = store)
       /\ SetWithoutSbi => (result' = "OK" /\ store' = store)
       /\ (ConfigStep /\ cmd'.name = "read" /\ kind = "subarray"
           /\ store.subarray.sbi_id = None)
            => (snap'.scan_type = None /\ snap'.scan_id = NoScanId)]_vars

C15_Witness ==
    /\ eventLoop = None
    /\ cmd.name = "Configure"
    /\ cmd.arg.valid /\ ~cmd.arg.has_new
    /\ result = "CommandFailed"
    /\ store.subarray.sbi_id # None
    /\ cmd.arg.scan_type \notin
         ScanTypeIdsOf(store.sbi[store.subarray.sbi_id].scan_types)
    /\ store.subarray.last_command = "AssignResources"

\* C16: create_if_not_present on a store that holds the record changes
\* nothing; on a store that does not, it creates the record with the initial
\* values (master: STANDBY; subarray: OFF, EMPTY, no command, no SBI) and
\* touches nothing else.
C16_CreateIdempotent ==
    [][(ConfigStep /\ cmd'.name = "create_if_not_present") =>
         /\ result' = "OK"
         /\ kind \in store.present => store' = store
         /\ kind \notin store.present =>
              /\ store'.present = store.present \cup {kind}
              /\ kind = "master" =>
                   /\ store'.master = [transaction_id |-> 0, state |-> "STANDBY"]
                   /\ store'.subarray = store.subarray
              /\ kind = "subarray" =>
                   /\ store'.subarray =
                        [transaction_id |-> 0, last_command |-> None,
                         state |-> "OFF", obs_state_target |-> "EMPTY",
                         sbi_id |-> None]
                   /\ store'.master = store.master
              /\ store'.sbi = store.sbi /\ store'.pb = store.pb]_vars

C16_Witness ==
    /\ eventLoop = None
    /\ cmd.name = "create_if_not_present"
    /\ kind = "subarray"
    /\ kind \in store.present
    /\ store.subarray.state = "ON"
    /\ store.subarray.sbi_id # None
    /\ store.rev > 0

\* the status a step that ends the SBI leaves in it: FINISHED for finish_sbi
\* (ReleaseResources), CANCELLED for cancel_sbi (Restart, and Off when the
\* obsState is not EMPTY); None for every other step
EndStatus ==
    IF ~(ConfigStep /\ result' = "OK") THEN None
    ELSE IF cmd'.name = "ReleaseResources" THEN "FINISHED"
    ELSE IF cmd'.name = "Restart" THEN "CANCELLED"
    ELSE IF cmd'.name = "Off" /\ store.subarray.obs_state_target # "EMPTY"
         THEN "CANCELLED"
    ELSE None

\* C17: after finish_sbi or cancel_sbi the subarray has no sbi_id, and the
\* SBI it had still exists with subarray_id, current_scan_type and scan_id
\* null and status FINISHED (finish) or CANCELLED (cancel).
C17_EndSbi ==
    [][(kind = "subarray" /\ EndStatus # None) =>
         /\ store'.subarray.sbi_id = None
         /\ store.subarray.sbi_id # None =>
              LET sbi == store'.sbi[store.subarray.sbi_id]
              IN /\ sbi.exists
                 /\ sbi.subarray_id = None
                 /\ sbi.current_scan_type = None
                 /\ sbi.scan_id = NoScanId
                 /\ sbi.status = EndStatus]_vars

C17_Witness ==
    /\ eventLoop = None
    /\ cmd.name = "Restart"
    /\ result = "OK"
    /\ store.subarray.sbi_id = None
    /\ \E i \in SbiIds : store.sbi[i].exists /\ store.sbi[i].status = "CANCELLED"

\* C18: in every committed state of the store a subarray sbi_id that is not
\* null names an SBI that exists and whose subarray_id is the id of the
\* subarray.
C18_LinkConsistent ==
    (kind = "subarray" /\ store.subarray.sbi_id # None) =>
        /\ store.subarray.sbi_id \in SbiIds
        /\ store.sbi[store.subarray.sbi_id].exists
        /\ store.sbi[store.subarray.sbi_id].subarray_id = "01"

C18_Witness ==
    /\ eventLoop = None
    /\ kind = "subarray"
    /\ cmd.name = "AssignResources"
    /\ result = "OK"
    /\ store.subarray.sbi_id # None
    /\ \E j \in SbiIds \ {store.subarray.sbi_id} :
          store.sbi[j].exists /\ store.sbi[j].subarray_id = None

\* C19: in every state of the store the current_scan_type of the linked
\* SBI, when set, is the id of one of the scan types of that SBI.
C19_ScanTypeKnown ==
    (kind = "subarray" /\ store.subarray.sbi_id # None) =>
        LET sbi == store.sbi[store.subarray.sbi_id]
        IN sbi.current_scan_type # None =>
              sbi.current_scan_type \in ScanTypeIdsOf(sbi.scan_types)

C19_Witness ==
    /\ eventLoop = None
    /\ kind = "subarray"
    /\ cmd.name = "Configure"
    /\ cmd.arg.has_new
    /\ result = "OK"
    /\ store.subarray.sbi_id # None
    /\ store.sbi[store.subarray.sbi_id].current_scan_type = "A"
    /\ ScanTypeIdsOf(store.sbi[store.subarray.sbi_id].scan_types) = {"A", "B"}

\* the state string the record of the device holds
RawState == IF kind = "master" THEN store.master.state ELSE store.subarray.state

\* C20: a read through the typed view does not raise; it yields the stored
\* state when that is the name of a device state and null otherwise, and
\* for a subarray the same for obs_state_target and the observing states.
C20_UnknownNamesReadNull ==
    [][(ConfigStep /\ cmd'.name = "read") =>
         /\ result' = "OK"
         /\ snap'.state = (IF RawState \in DevStateNames THEN RawState ELSE None)
         /\ kind = "subarray" =>
              snap'.obs_state_target =
                 (IF store.subarray.obs_state_target \in ObsStateNames
                  THEN store.subarray.obs_state_target ELSE None)]_vars

C20_Witness ==
    /\ eventLoop = None
    /\ kind = "subarray"
    /\ cmd.name = "read"
    /\ snapRev = store.rev
    /\ store.subarray.state = "invalid"
    /\ store.subarray.obs_state_target = "invalid"
    /\ snap.state = None
    /\ snap.obs_state_target = None

\* C21: init_device after a teardown leaves the store as it is, and when
\* the first pass after it notifies, the published state (and, for a
\* subarray, obsState) is the one the record holds, not the initial one.
C21_ReinitKeepsRecords ==
    /\ [][(cmd'.name = "init_device" /\ cmd.name # "init_device")
            => store' = store]_vars
    /\ [](/\ cmd.name = "init_device"
          /\ wpc \in {"notify", "release"}
          /\ store.rev = snapRev
          => /\ devState = (IF kind = "master" THEN store.master.state
                            ELSE store.subarray.state)
             /\ kind = "subarray" =>
                  obsState =
                    (IF /\ store.subarray.obs_state_target = "IDLE"
                        /\ store.subarray.last_command = "AssignResources"
                     THEN (IF AddressesWritten THEN "IDLE" ELSE "RESOURCING")
                     ELSE store.subarray.obs_state_target))

C21_Witness ==
    /\ kind = "subarray"
    /\ cmd.name = "init_device"
    /\ wpc = "notify"
    /\ devState = "ON"
    /\ obsState = "RESOURCING"
    /\ store.subarray.sbi_id # None
    /\ store.sbi[store.subarray.sbi_id].subarray_id = "01"

\* C22: the commit of an accepted Subarray Off leaves the stored state OFF,
\* the target obsState EMPTY and no linked SBI, and an SBI that was linked
\* before the commit has status CANCELLED after it.
C22_OffLeavesEmpty ==
    [][(kind = "subarray" /\ cmd.name = "Off" /\ cpc = "exec"
        /\ cpc' # "exec") =>
         /\ cpc' = "written"
         /\ store'.subarray.state = "OFF"
         /\ store'.subarray.obs_state_target = "EMPTY"
         /\ store'.subarray.sbi_id = None
         /\ store.subarray.sbi_id # None =>
              store'.sbi[store.subarray.sbi_id].status = "CANCELLED"]_vars

C22_Witness ==
    /\ kind = "subarray"
    /\ cmd.name = "Off"
    /\ cpc = "written"
    /\ obsState # "EMPTY"
    /\ store.subarray.state = "OFF"
    /\ store.subarray.sbi_id = None
    /\ \E i \in DOMAIN store.sbi : store.sbi[i].status = "CANCELLED"

\* C23: a pass whose snapshot holds an unrecognized state or target
\* obsState (read as None) does not end the event loop at the step that
\* publishes it.
C23_UnrecognizedTolerated ==
    [][(/\ wpc \in {"setState", "setObs"}
        /\ snap.state = None \/ snap.obs_state_target = None)
         => wpc' # "done"]_vars

\* C24: a command that is waiting after a pass has failed still has an
\* event loop that will run a later pass and wake it.
C24_WaiterOutlivesFailure ==
    (cpc = "waiting" /\ passFailed) => (wpc # "done" /\ eventLoop # None)

\* C25: a valid Configure on a subarray with a linked SBI whose scan_type
\* is one of its own new_scan_types is accepted: its commit leaves that id
\* as the SBI's current scan type and READY as the target obsState.
C25_ConfigureOwnScanType ==
    [][(/\ ConfigStep
        /\ cmd'.name = "Configure"
        /\ Validate(cmd'.arg) = ""
        /\ cmd'.arg.scan_type \in ScanTypeIdsOf(cmd'.arg.new_scan_types)
        /\ store.subarray.sbi_id # None)
         => /\ result' = "OK"
            /\ ScanTypeOf(store') = cmd'.arg.scan_type
            /\ store'.subarray.obs_state_target = "READY"]_vars

\* C26: the commit of an accepted Subarray command stamps last_command
\* with the command's name; the commit of ObsReset keeps the SBI linked
\* with no current scan type and no scan id; and when ObsReset has been
\* woken by the pass that applied it, the published obsState is IDLE,
\* whether or not the receive addresses have been written.
C26_ObsResetToIdle ==
    /\ [][(kind = "subarray" /\ cpc = "exec" /\ cpc' = "written") =>
            /\ store'.subarray.last_command = cmd.name
            /\ cmd.name = "ObsReset" =>
                 /\ store'.subarray.sbi_id = store.subarray.sbi_id
                 /\ store'.subarray.sbi_id # None
                 /\ ScanTypeOf(store') = None
                 /\ ScanIdOf(store') = NoScanId
                 /\ store'.subarray.obs_state_target = "IDLE"]_vars
    /\ []((cmd.name = "ObsReset" /\ cpc = "woken") => obsState = "IDLE")

C26_Witness ==
    /\ cmd.name = "ObsReset"
    /\ cpc = "woken"
    /\ obsState = "IDLE"
    /\ recvAddr = None
    /\ ~AddressesWritten
    /\ store.subarray.sbi_id # None

\* C27: the notify step of a pass wakes every thread that is waiting on
\* the condition: the command in its wait step and the caller of
\* wait_for_event; the waiting threads are exactly the registered waiters.
C27_NotifyWakesAll ==
    /\ [][(wpc = "notify" /\ wpc' # "notify") =>
            /\ waiters' = {}
            /\ "cmd" \in waiters => cpc' = "woken"
            /\ "wfe" \in waiters => epc' = "woken"]_vars
    /\ []((cpc = "waiting" <=> "cmd" \in waiters)
          /\ (epc = "waiting" <=> "wfe" \in waiters))

C27_Witness ==
    /\ wpc = "release"
    /\ cpc = "woken"
    /\ epc = "woken"
    /\ waiters = {}

C29_PollOnce ==
    /\ [](cpc \notin {"waiting", "woken"})
    /\ [][/\ cpc' # cpc => published' = published
          /\ published' # published =>
               wpc \in {"setState", "setRecv", "setScanType", "setScanID",
                        "setObs"}
          /\ (wpc = "idle" /\ wpc' # "idle") =>
               /\ wpc' = "setState"
               /\ snap' = ReadSnap(kind, store)
               /\ snapRev' = store.rev
          /\ (wpc = "release" /\ wpc' # "release") => wpc' = "idle"]_vars

C29_Witness ==
    /\ eventLoop = "fake"
    /\ cmd.name = "Off"
    /\ cpc = "idle"
    /\ result = "OK"
    /\ wpc = "idle"
    /\ devState = "ON"
    /\ (IF kind = "master" THEN store.master.state
        ELSE store.subarray.state) = "OFF"

\* C30: each attribute-setting step of a pass pushes a change event for
\* its attribute exactly when the derived value differs from the published
\* one, and for no other attribute; a pass over the store revision that
\* the previous pass applied changes no published attribute and has pushed
\* nothing when it notifies.
C30_PushOnlyChanges ==
    /\ [][(wpc \in PassSteps \ {"release"} /\ wpc' = AfterStep(kind, wpc)) =>
            /\ wpc = "setState" =>
                 pushed' = pushed \cup
                    (IF devState # snap.state THEN {"State"} ELSE {})
            /\ wpc = "setRecv" =>
                 pushed' = pushed \cup
                    (IF recvAddr # snap.receive_addresses
                     THEN {"receiveAddresses"} ELSE {})
            /\ wpc = "setScanType" =>
                 pushed' = pushed \cup
                    (IF scanType # DerivedScanType(snap)
                     THEN {"scanType"} ELSE {})
            /\ wpc = "setScanID" =>
                 pushed' = pushed \cup
                    (IF scanID # DerivedScanID(snap) THEN {"scanID"} ELSE {})
            /\ wpc = "setObs" =>
                 pushed' = pushed \cup
                    (IF obsState # DerivedObsState(snap)
                     THEN {"obsState"} ELSE {})
            /\ appliedRev = snapRev => published' = published]_vars
    /\ []((wpc = "notify" /\ appliedRev = snapRev) => pushed = {})

C30_Witness ==
    /\ wpc = "notify"
    /\ appliedRev = snapRev
    /\ pushed = {}
    /\ devState = "ON"
    /\ cmd.name = "On"

C32_NothingAfterStop ==
    [][(deleting /\ deleting') =>
         /\ published' = published
         /\ appliedRev' = appliedRev
         /\ waiters' = waiters
         /\ wpc' \in {wpc, "lock", "done"}]_vars

C32_Witness ==
    /\ deleting
    /\ cmd.name = "stop_event_loop"
    /\ wpc = "done"
    /\ store.rev > snapRev
    /\ snapRev >= 0
    /\ ~PublishedMatches(ReadSnap(kind, store))

\* C33: the target obsState of the subarray record is EMPTY exactly when
\* no SBI is linked, and an SBI becomes linked only in the commit of
\* AssignResources.
C33_EmptyIffNoSbi ==
    /\ [](kind = "subarray" =>
            (store.subarray.obs_state_target = "EMPTY"
               <=> store.subarray.sbi_id = None))
    /\ [][(store.subarray.sbi_id = None /\ store'.subarray.sbi_id # None)
            => (cmd.name = "AssignResources" /\ cpc = "exec")]_vars

C33_Witness ==
    /\ cmd.name = "AssignResources"
    /\ cpc = "written"
    /\ store.subarray.obs_state_target = "IDLE"
    /\ store.subarray.sbi_id = "eb2"
    /\ store.sbi["eb1"].status = "CANCELLED"

\* C34: while an SBI is linked, its scan fields go with the target
\* obsState: no scan type and no scan id with IDLE, a scan type and no
\* scan id with READY, a scan type and a scan id with SCANNING.
C34_ScanFieldsMatchTarget ==
    (kind = "subarray" /\ store.subarray.sbi_id # None) =>
        /\ store.subarray.obs_state_target = "IDLE" =>
              (ScanTypeOf(store) = None /\ ScanIdOf(store) = NoScanId)
        /\ store.subarray.obs_state_target = "READY" =>
              (ScanTypeOf(store) # None /\ ScanIdOf(store) = NoScanId)
        /\ store.subarray.obs_state_target = "SCANNING" =>
              (ScanTypeOf(store) # None /\ ScanIdOf(store) # NoScanId)

C34_Witness ==
    /\ cmd.name = "EndScan"
    /\ result = "OK"
    /\ store.subarray.obs_state_target = "READY"
    /\ ScanTypeOf(store) = "A"
    /\ ScanIdOf(store) = NoScanId

\* C35: the status of an SBI that is FINISHED or CANCELLED never changes
\* and that SBI is never linked again, the status of an ACTIVE one stays
\* or becomes FINISHED or CANCELLED, and a valid AssignResources that names
\* an SBI already ended fails with CommandFailed and commits nothing.
C35_SbiNeverReused ==
    [][/\ \A i \in SbiIds :
            /\ store.sbi[i].status \in {"FINISHED", "CANCELLED"} =>
                 /\ store'.sbi[i].status = store.sbi[i].status
                 /\ store'.subarray.sbi_id # i
            /\ store.sbi[i].status = "ACTIVE" =>
                 store'.sbi[i].status \in {"ACTIVE", "FINISHED", "CANCELLED"}
       /\ (/\ ConfigStep
           /\ cmd'.name = "AssignResources"
           /\ Validate(cmd'.arg) = ""
           /\ store.sbi[cmd'.arg.id].status \in {"FINISHED", "CANCELLED"})
            => (result' = "CommandFailed" /\ store' = store)]_vars

C35_Witness ==
    /\ cmd.name = "AssignResources"
    /\ Validate(cmd.arg) = ""
    /\ result = "CommandFailed"
    /\ store.subarray.sbi_id = None
    /\ store.sbi[cmd.arg.id].status = "FINISHED"
    /\ \A p \in cmd.arg.pbs : store.pb[p] = None

\* a step in which the framework calls one of the device's commands
CommandCalled ==
    /\ cpc = "idle"
    /\ cmdThread' # cmdThread
    /\ cmd'.name \in MasterCommands \cup SubarrayCommands

\* no pass has completed since init_device
NoPassYet == appliedRev = -1

\* C36 as stated: until the first pass since init_device has completed,
\* the published state is INIT, the Subarray obsState is unset and every
\* command is rejected with CommandNotAllowed.
C36_InitUntilPassCompleted ==
    /\ [](NoPassYet =>
            (devState = "INIT" /\ (kind = "subarray" => obsState = None)))
    /\ [][(NoPassYet /\ CommandCalled) =>
            (result' = "CommandNotAllowed" /\ cpc' = "idle")]_vars

\* C36: until the first pass since init_device reaches the statement that
\* sets the state, the published state is INIT and the Subarray obsState
\* is unset; as long as the published state is INIT every command is
\* rejected with CommandNotAllowed.
C36_InitUntilStateSet ==
    /\ []((NoPassYet /\ wpc \in {"watch", "lock", "setState", "done"}) =>
            (devState = "INIT" /\ (kind = "subarray" => obsState = None)))
    /\ [][(devState = "INIT" /\ CommandCalled) =>
            (result' = "CommandNotAllowed" /\ cpc' = "idle")]_vars

C36_Witness ==
    /\ NoPassYet
    /\ devState = "INIT"
    /\ ~deleting
    /\ wpc = "watch"
    /\ cmd.name = "Off"
    /\ result = "CommandNotAllowed"
    /\ (IF kind = "master" THEN store.master.state
        ELSE store.subarray.state) = "ON"

\* C37 as stated: from the evaluation of a command's guard to the store
\* write of its body no pass changes the published device state or
\* obsState.
C37_GuardStateStable ==
    [][(cpc \in {"call", "exec"}) =>
          (devState' = devState /\ obsState' = obsState)]_vars

\* C38: while the published obsState is RESOURCING every Subarray command
\* other than Off is rejected with CommandNotAllowed and leaves the store
\* as it is, and the published obsState leaves RESOURCING only for IDLE,
\* once the pass has read receive addresses, or for EMPTY through Off.
C38_OnlyOffInResourcing ==
    /\ [][(kind = "subarray" /\ obsState = "RESOURCING" /\ CommandCalled
             /\ cmd'.name # "Off") =>
            (result' = "CommandNotAllowed" /\ cpc' = "idle" /\ store' = store)]_vars
    /\ [][(obsState = "RESOURCING" /\ obsState' # "RESOURCING") =>
            \/ obsState' = "IDLE" /\ snap.receive_addresses # None
            \/ obsState' = "EMPTY" /\ cmd.name = "Off" /\ result = "pending"]_vars

C38_Witness ==
    /\ obsState = "RESOURCING"
    /\ devState = "ON"
    /\ cmd.name = "Abort"
    /\ result = "CommandNotAllowed"
    /\ cpc = "idle"
    /\ store.subarray.obs_state_target = "IDLE"
    /\ ~AddressesWritten

\* C39: a command whose body raises leaves the lock at once, with nothing
\* committed and without waiting: the error is the caller's result in the
\* same step; a command that is not running holds neither the lock nor a
\* place among the waiters, the event loop that wants the lock gets it and
\* a later command that was accepted gets to its body.
C39_FailureReleasesLock ==
    /\ [][(cpc = "exec" /\ cpc' # "exec"
             /\ Body(kind, cmd.name, cmd.arg, cmd.txn, store, obsState).err # "") =>
            /\ cpc' = "idle"
            /\ result' = Body(kind, cmd.name, cmd.arg, cmd.txn, store, obsState).err
            /\ lockOwner' = None
            /\ waiters' = waiters
            /\ store' = store]_vars
    /\ [](cpc = "idle" => (lockOwner # "cmd" /\ "cmd" \notin waiters))
    /\ [](wpc = "lock" => <>(wpc # "lock"))
    /\ [](cpc = "call" => <>(cpc # "call"))

C39_Witness ==
    /\ cmd.name = "AssignResources"
    /\ cpc = "idle"
    /\ result \in {"CommandFailed", "KeyError"}
    /\ lockOwner = "loop"
    /\ wpc = "setState"
    /\ store.rev # cmdRev

====
